---- MODULE Spec2Model ----
(***************************************************************************)
(* Blacklist check service: the HTTP handler (internal/api/handlers.go)    *)
(* and the cache-aside blacklist resolution of                             *)
(* BlacklistService.CheckBlacklist, against a Redis cache and a            *)
(* BlacklistStore (GetByNIK, GetByFuzzyMatch).                             *)
(*                                                                         *)
(* The store is the interface the service is constructed with; its data    *)
(* (byNIK, fuzzy) is fixed at Init and every call may also fail.           *)
(* Every I/O call of CheckBlacklist is one step of the calling process.    *)
(***************************************************************************)
EXTENDS Integers, Sequences, FiniteSets, TLC

(***************************************************************************)
(* Bounds                                                                  *)
(***************************************************************************)
\* longest candidate list the store returns in the model (LIMIT 5 in the SQL)
MaxCand == 2
\* number of requests the client sends
MaxCalls == 2

(***************************************************************************)
(* Values                                                                  *)
(***************************************************************************)
\* the request goroutines
Procs == {1, 2}

\* a *string / *time.Time of the JSON request body: nil or a value
Ptr(v) == [nil |-> FALSE, v |-> v]
NilStr == [nil |-> TRUE, v |-> ""]

\* time.Time: an instant (in half days since 0001-01-01T00:00Z) and the zone
\* offset (in half days) of its location
Time(i, o) == [inst |-> i, off |-> o]
\* the zero time.Time, 0001-01-01T00:00:00Z
ZeroTime == Time(0, 0)
NilTime == [nil |-> TRUE, v |-> ZeroTime]

\* time.Time.Equal: the same instant, whatever the location
TimeEqual(a, b) == a.inst = b.inst

\* time.Time.Format("2006-01-02"): the calendar day in the time's location
DayString == <<"0001-01-01", "0001-01-02", "0001-01-03">>
FormatDate(t) == DayString[((t.inst + t.off) \div 2) + 1]

\* request bodies the handler is given
InNames == {"Jo", "John Doe"}
InNIKs == {NilStr, Ptr("3174010101900001"), Ptr("123")}
InPlaces == {NilStr, Ptr(""), Ptr("Jakarta")}
InDates == {NilTime, Ptr(Time(2, 0)), Ptr(Time(3, 0))}
HttpRequests == [Name : InNames, NIK : InNIKs, BirthPlace : InPlaces, BirthDate : InDates]

\* request bodies for comparing the cache keys of two requests
KeyNames == {"Jo", "John Doe", "Jane Doe", "John", "John:Doe"}
KeyNIKs == {NilStr, Ptr("3174010101900001"), Ptr("3174010101900002"), Ptr("123")}
KeyPlaces == {NilStr, Ptr(""), Ptr("Jakarta"), Ptr("Doe:Jakarta")}
KeyDates == {NilTime, Ptr(ZeroTime), Ptr(Time(2, 0)), Ptr(Time(3, 0))}
KeyRequests == [Name : KeyNames, NIK : KeyNIKs, BirthPlace : KeyPlaces, BirthDate : KeyDates]

\* nikRegex ^\d{16}$ on the strings of InNIKs and KeyNIKs (all of them digit strings)
NikRegexMatch(s) == Len(s) = 16

\* service.CheckRequest
ZeroCheckRequest == [Name |-> "", NIK |-> "", BirthPlace |-> "", BirthDate |-> ZeroTime]

\* service.CheckResult and its zero value
CheckResult(b, d, m) == [Blacklisted |-> b, Details |-> d, MatchType |-> m]
ZeroResult == CheckResult(FALSE, "", "")

\* store.BlacklistRecord (the fields CheckBlacklist reads)
BlacklistRecord(place, date, reason) == [BirthPlace |-> place, BirthDate |-> date, Reason |-> reason]
NilRecord == [nil |-> TRUE, v |-> BlacklistRecord("", ZeroTime, "")]

\* the row of the blacklist table with a NIK of the model
NikRow == BlacklistRecord("Jakarta", Time(2, 0), "court order")

\* birth place and birth date of the rows a fuzzy search returns; the row at
\* rank i carries the reason RankReason[i], so an answer names its row
RowKeys == [BirthPlace : {"", "Jakarta"}, BirthDate : {ZeroTime, Time(2, 0)}]
RankReason == <<"fraud", "sanction", "debt", "forgery", "embargo">>
CandidateLists ==
  UNION {{[i \in 1..k |-> BlacklistRecord(ks[i].BirthPlace, ks[i].BirthDate, RankReason[i])] :
             ks \in [1..k -> RowKeys]} : k \in 0..MaxCand}

(***************************************************************************)
(* Cache payloads: encoding/json of CheckResult                            *)
(***************************************************************************)
ResultFields == {"Blacklisted", "Details", "MatchType"}

\* a byte payload: either not a JSON object, or a JSON object with some of
\* the fields of CheckResult
Payload(valid, has, r) ==
  [valid |-> valid, has |-> has,
   Blacklisted |-> r.Blacklisted, Details |-> r.Details, MatchType |-> r.MatchType]

\* variant: Details is left out of the payload
Marshal_DropsDetails(r) == Payload(TRUE, {"Blacklisted", "MatchType"}, r)

\* json.Marshal(result): an object with all three fields
Marshal(r) == Payload(TRUE, ResultFields, r)

\* json.Unmarshal(payload, &result): fails unless the payload is an object;
\* a field the object lacks keeps its zero value
UnmarshalOk(p) == p.valid
Unmarshal(p) ==
  CheckResult(IF "Blacklisted" \in p.has THEN p.Blacklisted ELSE FALSE,
              IF "Details" \in p.has THEN p.Details ELSE "",
              IF "MatchType" \in p.has THEN p.MatchType ELSE "")

\* payloads another writer may leave in Redis: garbage, and "{}"
Malformed == Payload(FALSE, {}, ZeroResult)
EmptyObject == Payload(TRUE, {}, ZeroResult)
ForeignPayloads == {Malformed, EmptyObject}

\* expiry of a cache entry, in hours
CacheTTL == 24

(***************************************************************************)
(* State                                                                   *)
(***************************************************************************)
VARIABLES
  byNIK,     \* store data: NIK -> record GetByNIK returns (or nil)
  fuzzy,     \* store data: the ranked list GetByFuzzyMatch returns
  cache,     \* Redis: key -> [val, ttl]
  pc,        \* per process: position in Handler.CheckBlacklist / CheckBlacklist
  hreq,      \* per process: decoded request body
  req,       \* per process: service.CheckRequest
  cacheKey,  \* per process: local cacheKey
  result,    \* per process: local result
  ret,       \* per process: what CheckBlacklist returned / the handler answered
  ops,       \* per process: the I/O calls of this invocation, in order
  prev,      \* per process: ret and ops of the previous invocation when
             \* this one repeats its request, else NoPrev
  calls,     \* number of requests sent so far
  cancelled  \* per process: the request's context (r.Context()) is done

vars == <<byNIK, fuzzy, cache, pc, hreq, req, cacheKey, result, ret, ops, prev, calls, cancelled>>

NoRet == [kind |-> "none", result |-> ZeroResult]
Ret(k, r) == [kind |-> k, result |-> r]
Op(o, out) == [op |-> o, out |-> out]
NoPrev == [ret |-> NoRet, ops |-> <<>>]

(***************************************************************************)
(* Handler.CheckBlacklist: validation and the service request              *)
(***************************************************************************)
\* the two 400 answers: name shorter than 3, NIK given and not 16 digits
BadRequest(h) ==
  \/ Len(h.Name) < 3
  \/ (~h.NIK.nil /\ ~NikRegexMatch(h.NIK.v))

\* serviceReq: a nil pointer leaves the field at its zero value
ServiceRequest(h) ==
  [Name |-> h.Name,
   NIK |-> IF ~h.NIK.nil THEN h.NIK.v ELSE ZeroCheckRequest.NIK,
   BirthPlace |-> IF ~h.BirthPlace.nil THEN h.BirthPlace.v ELSE ZeroCheckRequest.BirthPlace,
   BirthDate |-> IF ~h.BirthDate.nil THEN h.BirthDate.v ELSE ZeroCheckRequest.BirthDate]

(***************************************************************************)
(* BlacklistService.CheckBlacklist: pure parts                             *)
(***************************************************************************)
\* variant: the name is part of the key of a request with a NIK
CacheKey_WithName(r) ==
  IF r.NIK # ""
    THEN "blacklist:nik:" \o r.NIK \o ":" \o r.Name
    ELSE "blacklist:name:" \o r.Name \o ":" \o r.BirthPlace \o ":" \o FormatDate(r.BirthDate)

\* variant: the key is derived from name, place and date also when a NIK is given
CacheKey_NameOnly(r) ==
  "blacklist:name:" \o r.Name \o ":" \o r.BirthPlace \o ":" \o FormatDate(r.BirthDate)

\* the cache key
CacheKey(r) ==
  IF r.NIK # ""
    THEN "blacklist:nik:" \o r.NIK
    ELSE "blacklist:name:" \o r.Name \o ":" \o r.BirthPlace \o ":" \o FormatDate(r.BirthDate)

\* the condition of the first loop: birth place and birth date both match
FullMatch(rec, r) == rec.BirthPlace = r.BirthPlace /\ TimeEqual(rec.BirthDate, r.BirthDate)

\* the condition of the second loop: birth date matches
DateMatch(rec, r) == TimeEqual(rec.BirthDate, r.BirthDate)

\* for _, record := range records { if cond { ...; break } } from index i:
\* the index the loop breaks at, 0 when it runs to the end
RECURSIVE ScanFull(_, _, _)
ScanFull(records, r, i) ==
  IF i > Len(records) THEN 0
  ELSE IF FullMatch(records[i], r) THEN i
  ELSE ScanFull(records, r, i + 1)

\* variant: the loop has no break, the last match stands
RECURSIVE ScanDate_NoBreak(_, _, _)
ScanDate_NoBreak(records, r, i) ==
  IF i > Len(records) THEN 0
  ELSE LET later == ScanDate_NoBreak(records, r, i + 1)
       IN IF later # 0 THEN later
          ELSE IF DateMatch(records[i], r) THEN i
          ELSE 0

RECURSIVE ScanDate(_, _, _)
ScanDate(records, r, i) ==
  IF i > Len(records) THEN 0
  ELSE IF DateMatch(records[i], r) THEN i
  ELSE ScanDate(records, r, i + 1)

\* result when GetByNIK returned a record
ExactResult(rec) == CheckResult(TRUE, rec.Reason, "exact_nik")

\* variant: one loop that stops at the first date match and names the tier
\* by whether the place matches too
FuzzyResult_OnePass(records, r) ==
  LET d == ScanDate(records, r, 1)
  IN IF Len(records) > 0 /\ d # 0
       THEN CheckResult(TRUE, records[d].Reason,
                        IF FullMatch(records[d], r) THEN "fuzzy_full_match" ELSE "fuzzy_date_match")
     ELSE CheckResult(FALSE, "", "no_match")

\* result after the fuzzy block, given the records GetByFuzzyMatch returned
FuzzyResult(records, r) ==
  LET f == ScanFull(records, r, 1)
      d == ScanDate(records, r, 1)
  IN IF Len(records) > 0 /\ f # 0
       THEN CheckResult(TRUE, records[f].Reason, "fuzzy_full_match")
     ELSE IF Len(records) > 0 /\ d # 0
       THEN CheckResult(TRUE, records[d].Reason, "fuzzy_date_match")
     ELSE CheckResult(FALSE, "", "no_match")

(***************************************************************************)
(* Initial state                                                           *)
(***************************************************************************)
ValidRequests == {h \in HttpRequests : ~BadRequest(h)}
ValidNIKs == {h.NIK.v : h \in {g \in ValidRequests : ~g.NIK.nil}}
AllKeys == {CacheKey(ServiceRequest(h)) : h \in ValidRequests}

EmptyCache == [k \in {} |-> [val |-> Malformed, ttl |-> CacheTTL]]

TypeOK ==
  /\ byNIK \in [ValidNIKs -> {NilRecord, Ptr(NikRow)}]
  /\ fuzzy \in CandidateLists
  /\ calls \in 0..MaxCalls
  /\ DOMAIN cache \subseteq AllKeys
  /\ pc \in [Procs -> {"idle", "get", "nik", "fuzzy", "set", "done"}]
  /\ hreq \in [Procs -> HttpRequests \cup KeyRequests]
  /\ \A p \in Procs : ret[p].kind \in {"none", "ok", "err", "badreq"}

InitProc ==
  /\ pc = [p \in Procs |-> "idle"]
  /\ hreq = [p \in Procs |-> [Name |-> "Jo", NIK |-> NilStr, BirthPlace |-> NilStr, BirthDate |-> NilTime]]
  /\ req = [p \in Procs |-> ZeroCheckRequest]
  /\ cacheKey = [p \in Procs |-> ""]
  /\ result = [p \in Procs |-> ZeroResult]
  /\ ret = [p \in Procs |-> NoRet]
  /\ ops = [p \in Procs |-> <<>>]
  /\ prev = [p \in Procs |-> NoPrev]
  /\ calls = 0
  /\ cancelled = [p \in Procs |-> FALSE]

\* the service starts against an empty Redis and a store whose fuzzy search
\* finds nothing or one row
Init ==
  /\ byNIK \in [ValidNIKs -> {NilRecord, Ptr(NikRow)}]
  /\ fuzzy \in {l \in CandidateLists : Len(l) <= 1}
  /\ cache = EmptyCache
  /\ InitProc

\* the same, for every ranked list the fuzzy search can return
InitEngine ==
  /\ byNIK \in [ValidNIKs -> {NilRecord, Ptr(NikRow)}]
  /\ fuzzy \in CandidateLists
  /\ cache = EmptyCache
  /\ InitProc

(***************************************************************************)
(* Actions                                                                 *)
(***************************************************************************)
\* the handler answers 400 without calling the service
Reject(p, h) ==
  /\ pc[p] \in {"idle", "done"}
  /\ calls < MaxCalls
  /\ BadRequest(h)
  /\ calls' = calls + 1
  /\ pc' = [pc EXCEPT ![p] = "done"]
  /\ hreq' = [hreq EXCEPT ![p] = h]
  /\ req' = [req EXCEPT ![p] = ZeroCheckRequest]
  /\ cacheKey' = [cacheKey EXCEPT ![p] = ""]
  /\ result' = [result EXCEPT ![p] = ZeroResult]
  /\ ret' = [ret EXCEPT ![p] = Ret("badreq", ZeroResult)]
  /\ ops' = [ops EXCEPT ![p] = <<>>]
  /\ prev' = [prev EXCEPT ![p] = NoPrev]
  /\ cancelled' = [cancelled EXCEPT ![p] = FALSE]
  /\ UNCHANGED <<byNIK, fuzzy, cache>>

\* the handler builds the service request and CheckBlacklist derives its key
Start(p, h) ==
  /\ pc[p] \in {"idle", "done"}
  /\ calls < MaxCalls
  /\ ~BadRequest(h)
  /\ calls' = calls + 1
  /\ pc' = [pc EXCEPT ![p] = "get"]
  /\ hreq' = [hreq EXCEPT ![p] = h]
  /\ req' = [req EXCEPT ![p] = ServiceRequest(h)]
  /\ cacheKey' = [cacheKey EXCEPT ![p] = CacheKey(ServiceRequest(h))]
  /\ result' = [result EXCEPT ![p] = ZeroResult]
  /\ ret' = [ret EXCEPT ![p] = NoRet]
  /\ ops' = [ops EXCEPT ![p] = <<>>]
  /\ prev' = [prev EXCEPT ![p] = IF pc[p] = "done" /\ h = hreq[p]
                                    THEN [ret |-> ret[p], ops |-> ops[p]]
                                    ELSE NoPrev]
  /\ cancelled' = [cancelled EXCEPT ![p] = FALSE]
  /\ UNCHANGED <<byNIK, fuzzy, cache>>

\* another writer of the same Redis leaves a payload under the key this
\* request is about to read
ForeignSet(p, f) ==
  /\ pc[p] = "get"
  /\ ops[p] = <<>>
  /\ cacheKey[p] \notin DOMAIN cache
  /\ cache' = (cacheKey[p] :> [val |-> f, ttl |-> CacheTTL]) @@ cache
  /\ UNCHANGED <<byNIK, fuzzy, pc, hreq, req, cacheKey, result, ret, ops, prev, calls, cancelled>>

\* the client goes away or the deadline passes while the request is in
\* flight: every call made with the context from now on fails
Cancel(p) ==
  /\ pc[p] \in {"get", "nik", "fuzzy", "set"}
  /\ ~cancelled[p]
  /\ cancelled' = [cancelled EXCEPT ![p] = TRUE]
  /\ ops' = [ops EXCEPT ![p] = Append(@, Op("ctx", "cancel"))]
  /\ UNCHANGED <<byNIK, fuzzy, cache, pc, hreq, req, cacheKey, result, ret, prev, calls>>

\* where CheckBlacklist continues after a cache miss
AfterMiss(p) == IF req[p].NIK # "" THEN "nik" ELSE "fuzzy"

\* variant: the cached value is logged but not returned
CacheGetHit_FallsThrough(p) ==
  /\ pc[p] = "get"
  /\ ~cancelled[p]
  /\ cacheKey[p] \in DOMAIN cache
  /\ UnmarshalOk(cache[cacheKey[p]].val)
  /\ ops' = [ops EXCEPT ![p] = Append(@, Op("get", "hit"))]
  /\ pc' = [pc EXCEPT ![p] = AfterMiss(p)]
  /\ UNCHANGED <<byNIK, fuzzy, cache, hreq, req, cacheKey, result, ret, prev, calls, cancelled>>

\* redis.Get returns the value and json.Unmarshal succeeds: return it
CacheGetHit(p) ==
  /\ pc[p] = "get"
  /\ ~cancelled[p]
  /\ cacheKey[p] \in DOMAIN cache
  /\ UnmarshalOk(cache[cacheKey[p]].val)
  /\ ret' = [ret EXCEPT ![p] = Ret("ok", Unmarshal(cache[cacheKey[p]].val))]
  /\ ops' = [ops EXCEPT ![p] = Append(@, Op("get", "hit"))]
  /\ pc' = [pc EXCEPT ![p] = "done"]
  /\ UNCHANGED <<byNIK, fuzzy, cache, hreq, req, cacheKey, result, prev, calls, cancelled>>

\* variant: a miss waits while another request resolves the same key
CacheGetAbsent_SingleFlight(p) ==
  /\ pc[p] = "get"
  /\ ~cancelled[p]
  /\ cacheKey[p] \notin DOMAIN cache
  /\ \A q \in Procs \ {p} : ~(pc[q] \in {"nik", "fuzzy", "set"} /\ cacheKey[q] = cacheKey[p])
  /\ ops' = [ops EXCEPT ![p] = Append(@, Op("get", "absent"))]
  /\ pc' = [pc EXCEPT ![p] = AfterMiss(p)]
  /\ UNCHANGED <<byNIK, fuzzy, cache, hreq, req, cacheKey, result, ret, prev, calls, cancelled>>

\* redis.Get returns redis.Nil: the key is absent
CacheGetAbsent(p) ==
  /\ pc[p] = "get"
  /\ ~cancelled[p]
  /\ cacheKey[p] \notin DOMAIN cache
  /\ ops' = [ops EXCEPT ![p] = Append(@, Op("get", "absent"))]
  /\ pc' = [pc EXCEPT ![p] = AfterMiss(p)]
  /\ UNCHANGED <<byNIK, fuzzy, cache, hreq, req, cacheKey, result, ret, prev, calls, cancelled>>

\* redis.Get returns a value json.Unmarshal rejects
CacheGetMalformed(p) ==
  /\ pc[p] = "get"
  /\ ~cancelled[p]
  /\ cacheKey[p] \in DOMAIN cache
  /\ ~UnmarshalOk(cache[cacheKey[p]].val)
  /\ ops' = [ops EXCEPT ![p] = Append(@, Op("get", "malformed"))]
  /\ pc' = [pc EXCEPT ![p] = AfterMiss(p)]
  /\ UNCHANGED <<byNIK, fuzzy, cache, hreq, req, cacheKey, result, ret, prev, calls, cancelled>>

\* variant: the Redis error is returned to the caller
CacheGetError_Aborts(p) ==
  /\ pc[p] = "get"
  /\ ops' = [ops EXCEPT ![p] = Append(@, Op("get", "error"))]
  /\ ret' = [ret EXCEPT ![p] = Ret("err", ZeroResult)]
  /\ pc' = [pc EXCEPT ![p] = "done"]
  /\ UNCHANGED <<byNIK, fuzzy, cache, hreq, req, cacheKey, result, prev, calls, cancelled>>

\* redis.Get fails (connection, timeout)
CacheGetError(p) ==
  /\ pc[p] = "get"
  /\ ops' = [ops EXCEPT ![p] = Append(@, Op("get", "error"))]
  /\ pc' = [pc EXCEPT ![p] = AfterMiss(p)]
  /\ UNCHANGED <<byNIK, fuzzy, cache, hreq, req, cacheKey, result, ret, prev, calls, cancelled>>

\* variant: the fuzzy block is not guarded
AfterNIK_Unguarded(res) == "fuzzy"

\* if !result.Blacklisted: the fuzzy block runs unless the NIK matched
AfterNIK(res) == IF ~res.Blacklisted THEN "fuzzy" ELSE "set"

\* store.GetByNIK returns a record or nil
GetByNIK(p) ==
  /\ pc[p] = "nik"
  /\ ~cancelled[p]
  /\ LET record == byNIK[req[p].NIK]
     IN IF ~record.nil
          THEN /\ result' = [result EXCEPT ![p] = ExactResult(record.v)]
               /\ ops' = [ops EXCEPT ![p] = Append(@, Op("nik", "found"))]
          ELSE /\ result' = result
               /\ ops' = [ops EXCEPT ![p] = Append(@, Op("nik", "nil"))]
  /\ pc' = [pc EXCEPT ![p] = AfterNIK(result'[p])]
  /\ UNCHANGED <<byNIK, fuzzy, cache, hreq, req, cacheKey, ret, prev, calls, cancelled>>

\* store.GetByNIK fails: CheckBlacklist returns the error
GetByNIKError(p) ==
  /\ pc[p] = "nik"
  /\ ops' = [ops EXCEPT ![p] = Append(@, Op("nik", "error"))]
  /\ ret' = [ret EXCEPT ![p] = Ret("err", ZeroResult)]
  /\ pc' = [pc EXCEPT ![p] = "done"]
  /\ UNCHANGED <<byNIK, fuzzy, cache, hreq, req, cacheKey, result, prev, calls, cancelled>>

\* variant: the fuzzy search answers even though the context is cancelled
GetByFuzzyMatch_IgnoresCtx(p) ==
  /\ pc[p] = "fuzzy"
  /\ result' = [result EXCEPT ![p] = FuzzyResult(fuzzy, req[p])]
  /\ ops' = [ops EXCEPT ![p] = Append(@, Op("fuzzy", "ok"))]
  /\ pc' = [pc EXCEPT ![p] = "set"]
  /\ UNCHANGED <<byNIK, fuzzy, cache, hreq, req, cacheKey, ret, prev, calls, cancelled>>

\* store.GetByFuzzyMatch returns its ranked list; the two loops classify it
GetByFuzzyMatch(p) ==
  /\ pc[p] = "fuzzy"
  /\ ~cancelled[p]
  /\ result' = [result EXCEPT ![p] = FuzzyResult(fuzzy, req[p])]
  /\ ops' = [ops EXCEPT ![p] = Append(@, Op("fuzzy", "ok"))]
  /\ pc' = [pc EXCEPT ![p] = "set"]
  /\ UNCHANGED <<byNIK, fuzzy, cache, hreq, req, cacheKey, ret, prev, calls, cancelled>>

\* variant: a failed search counts as an empty one
GetByFuzzyMatchError_Degrades(p) ==
  /\ pc[p] = "fuzzy"
  /\ result' = [result EXCEPT ![p] = CheckResult(FALSE, "", "no_match")]
  /\ ops' = [ops EXCEPT ![p] = Append(@, Op("fuzzy", "error"))]
  /\ pc' = [pc EXCEPT ![p] = "set"]
  /\ UNCHANGED <<byNIK, fuzzy, cache, hreq, req, cacheKey, ret, prev, calls, cancelled>>

\* store.GetByFuzzyMatch fails: CheckBlacklist returns the error
GetByFuzzyMatchError(p) ==
  /\ pc[p] = "fuzzy"
  /\ ops' = [ops EXCEPT ![p] = Append(@, Op("fuzzy", "error"))]
  /\ ret' = [ret EXCEPT ![p] = Ret("err", ZeroResult)]
  /\ pc' = [pc EXCEPT ![p] = "done"]
  /\ UNCHANGED <<byNIK, fuzzy, cache, hreq, req, cacheKey, result, prev, calls, cancelled>>

\* variant: a failed Set fails the request
AfterSet_FailsOnError(r, setOk) == IF setOk THEN Ret("ok", r) ELSE Ret("err", ZeroResult)

\* what CheckBlacklist returns after redis.Set, whether or not Set failed
AfterSet(r, setOk) == Ret("ok", r)

\* variant: the write replaces the whole cache by the one entry
CacheSet_Flushes(p) ==
  /\ pc[p] = "set"
  /\ ~cancelled[p]
  /\ cache' = (cacheKey[p] :> [val |-> Marshal(result[p]), ttl |-> CacheTTL])
  /\ ops' = [ops EXCEPT ![p] = Append(@, Op("set", "ok"))]
  /\ ret' = [ret EXCEPT ![p] = AfterSet(result[p], TRUE)]
  /\ pc' = [pc EXCEPT ![p] = "done"]
  /\ UNCHANGED <<byNIK, fuzzy, hreq, req, cacheKey, result, prev, calls, cancelled>>

\* variant: only positive answers are cached
CacheSet_SkipsNegative(p) ==
  /\ pc[p] = "set"
  /\ ~cancelled[p]
  /\ IF result[p].Blacklisted
       THEN /\ cache' = (cacheKey[p] :> [val |-> Marshal(result[p]), ttl |-> CacheTTL]) @@ cache
            /\ ops' = [ops EXCEPT ![p] = Append(@, Op("set", "ok"))]
       ELSE UNCHANGED <<cache, ops>>
  /\ ret' = [ret EXCEPT ![p] = AfterSet(result[p], TRUE)]
  /\ pc' = [pc EXCEPT ![p] = "done"]
  /\ UNCHANGED <<byNIK, fuzzy, hreq, req, cacheKey, result, prev, calls, cancelled>>

\* redis.Set stores the marshalled result for 24 hours; return the result
CacheSet(p) ==
  /\ pc[p] = "set"
  /\ ~cancelled[p]
  /\ cache' = (cacheKey[p] :> [val |-> Marshal(result[p]), ttl |-> CacheTTL]) @@ cache
  /\ ops' = [ops EXCEPT ![p] = Append(@, Op("set", "ok"))]
  /\ ret' = [ret EXCEPT ![p] = AfterSet(result[p], TRUE)]
  /\ pc' = [pc EXCEPT ![p] = "done"]
  /\ UNCHANGED <<byNIK, fuzzy, hreq, req, cacheKey, result, prev, calls, cancelled>>

\* variant: a failed Set is tried again
CacheSetError_Retries(p) ==
  /\ pc[p] = "set"
  /\ ops' = [ops EXCEPT ![p] = Append(@, Op("set", "error"))]
  /\ UNCHANGED <<byNIK, fuzzy, cache, pc, hreq, req, cacheKey, result, ret, prev, calls, cancelled>>

\* redis.Set fails: the error is logged and the result returned all the same
CacheSetError(p) ==
  /\ pc[p] = "set"
  /\ ops' = [ops EXCEPT ![p] = Append(@, Op("set", "error"))]
  /\ ret' = [ret EXCEPT ![p] = AfterSet(result[p], FALSE)]
  /\ pc' = [pc EXCEPT ![p] = "done"]
  /\ UNCHANGED <<byNIK, fuzzy, cache, hreq, req, cacheKey, result, prev, calls, cancelled>>

\* the calls of CheckBlacklist for a request in flight, on a Redis that holds
\* only what CheckBlacklist wrote (every such value unmarshals)
Calls(p) ==
  \/ CacheGetHit(p)
  \/ CacheGetAbsent(p)
  \/ CacheGetError(p)
  \/ GetByNIK(p)
  \/ GetByNIKError(p)
  \/ GetByFuzzyMatch(p)
  \/ GetByFuzzyMatchError(p)
  \/ CacheSet(p)
  \/ CacheSetError(p)

\* the steps of a request in flight, with another writer on the same Redis
Resolve(p) ==
  \/ \E f \in ForeignPayloads : ForeignSet(p, f)
  \/ CacheGetMalformed(p)
  \/ Calls(p)

\* a client that sends up to MaxCalls requests, each after the answer to the
\* one before
Next ==
  \/ \E h \in HttpRequests : Reject(1, h)
  \/ \E h \in HttpRequests : Start(1, h)
  \/ Resolve(1)

Spec == Init /\ [][Next]_vars

\* a single request, against every store
FirstReject(p, h) == pc[p] = "idle" /\ Reject(p, h)
FirstStart(p, h) == pc[p] = "idle" /\ Start(p, h)

NextEngine ==
  \/ \E h \in HttpRequests : FirstReject(1, h)
  \/ \E h \in HttpRequests : FirstStart(1, h)
  \/ Resolve(1)

SpecEngine == InitEngine /\ [][NextEngine]_vars

\* two requests arrive and each derives its cache key
InitKey ==
  /\ byNIK = [n \in ValidNIKs |-> NilRecord]
  /\ fuzzy = <<>>
  /\ cache = EmptyCache
  /\ InitProc

NextKey ==
  \E p \in Procs :
    \/ \E h \in KeyRequests : FirstReject(p, h)
    \/ \E h \in KeyRequests : FirstStart(p, h)

SpecKey == InitKey /\ [][NextKey]_vars

\* the service alone on its Redis: only CheckBlacklist writes the cache
NextClosed ==
  \/ \E h \in HttpRequests : Reject(1, h)
  \/ \E h \in HttpRequests : Start(1, h)
  \/ Calls(1)

SpecClosed == Init /\ [][NextClosed]_vars

\* requests in flight at the same time: two share the NIK key, one has a
\* name key
ConcRequests ==
  {h \in HttpRequests :
     /\ h.Name = "John Doe"
     /\ h.NIK \in {NilStr, Ptr("3174010101900001")}
     /\ \/ h.BirthPlace = Ptr("Jakarta") /\ h.BirthDate = Ptr(Time(2, 0))
        \/ ~h.NIK.nil /\ h.BirthPlace = NilStr /\ h.BirthDate = NilTime}

\* the handler runs each request in its own goroutine; the calls of the two
\* invocations interleave freely
NextConc ==
  \E p \in Procs :
    \/ \E h \in ConcRequests : FirstStart(p, h)
    \/ Calls(p)

SpecConc == Init /\ [][NextConc]_vars

\* requests whose context may be cancelled while CheckBlacklist runs
NextCancel ==
  \/ \E h \in ConcRequests : Start(1, h)
  \/ Calls(1)
  \/ Cancel(1)

SpecCancel == Init /\ [][NextCancel]_vars

(***************************************************************************)
(* Vocabulary of the properties                                            *)
(***************************************************************************)
\* the invocation of p made the call o / made it with outcome out
Called(p, o) == \E i \in DOMAIN ops[p] : ops[p][i].op = o
Did(p, o, out) == \E i \in DOMAIN ops[p] : ops[p][i] = Op(o, out)

\* the invocation of p read the cache and did not get a usable value
Missed(p) == ops[p] # <<>> /\ ops[p][1].op = "get" /\ ops[p][1].out # "hit"

\* a store call of the invocation of p failed
ProviderFailed(p) == Did(p, "nik", "error") \/ Did(p, "fuzzy", "error")

\* the outcome the tiers prescribe for request r on the store's data
Engine(r) ==
  IF r.NIK # "" /\ ~byNIK[r.NIK].nil
    THEN CheckResult(TRUE, byNIK[r.NIK].v.Reason, "exact_nik")
    ELSE FuzzyResult(fuzzy, r)

\* ranks of the candidates matching r on place and date / on date
FullRanks(r) ==
  {i \in DOMAIN fuzzy : fuzzy[i].BirthPlace = r.BirthPlace /\ fuzzy[i].BirthDate.inst = r.BirthDate.inst}
DateRanks(r) == {i \in DOMAIN fuzzy : fuzzy[i].BirthDate.inst = r.BirthDate.inst}
MinRank(S) == CHOOSE i \in S : \A j \in S : i <= j

C2_NameOnlyNeverMatches ==
  \A p \in Procs :
    (pc[p] = "done" /\ hreq[p].NIK.nil /\ hreq[p].BirthDate.nil /\ Missed(p) /\ ret[p].kind = "ok")
      => ret[p].result = CheckResult(FALSE, "", "no_match")

(***************************************************************************)
(* C3: when redis.Get returns a value that unmarshals, CheckBlacklist      *)
(* returns exactly that value and calls neither GetByNIK nor               *)
(* GetByFuzzyMatch nor redis.Set.                                          *)
(***************************************************************************)
C3_CacheHitReturnsCached ==
  \A p \in Procs :
    (pc[p] = "done" /\ Did(p, "get", "hit"))
      => /\ ops[p] = <<Op("get", "hit")>>
         /\ cacheKey[p] \in DOMAIN cache
         /\ ret[p] = Ret("ok", Unmarshal(cache[cacheKey[p]].val))

\* a hit on an entry an earlier invocation wrote, holding a positive answer
C3_Witness ==
  \E p \in Procs :
    /\ pc[p] = "done" /\ ops[p] = <<Op("get", "hit")>>
    /\ ret[p].result.Blacklisted

(***************************************************************************)
(* C4, as claimed: the same request sent twice in succession gets the same *)
(* outcome twice, and the second invocation calls neither GetByNIK nor     *)
(* GetByFuzzyMatch.                                                        *)
(***************************************************************************)
C4_IdempotentAlways ==
  \A p \in Procs :
    (pc[p] = "done" /\ prev[p].ret.kind = "ok")
      => /\ ret[p] = prev[p].ret
         /\ ~Called(p, "nik") /\ ~Called(p, "fuzzy")

\* the previous invocation left its outcome in the cache: it wrote it, or it
\* had read it there
LeftCached(o) == o # <<>> /\ o[Len(o)] \in {Op("set", "ok"), Op("get", "hit")}

(***************************************************************************)
(* C4, amended: the same request sent twice in succession gets the same    *)
(* outcome twice and the second invocation calls neither store method,     *)
(* when the first invocation returned an outcome that it wrote to or read  *)
(* from the cache and the second invocation's redis.Get does not fail.     *)
(***************************************************************************)
C4_IdempotentWhenCached ==
  \A p \in Procs :
    (/\ pc[p] = "done"
     /\ prev[p].ret.kind = "ok"
     /\ LeftCached(prev[p].ops)
     /\ ~Did(p, "get", "error"))
      => /\ ret[p] = prev[p].ret
         /\ ops[p] = <<Op("get", "hit")>>

\* a repeated request answered from the entry its first invocation wrote
C4_Witness ==
  \E p \in Procs :
    /\ pc[p] = "done"
    /\ prev[p].ret.kind = "ok" /\ Did(p, "get", "hit")
    /\ prev[p].ops # <<>> /\ prev[p].ops[Len(prev[p].ops)] = Op("set", "ok")
    /\ ret[p] = prev[p].ret
    /\ ret[p].result.Details # ""

(***************************************************************************)
(* C5: when GetByNIK or GetByFuzzyMatch fails, CheckBlacklist returns an   *)
(* error and no result, and does not write the cache: the returning step   *)
(* leaves the cache as it is and the invocation made no redis.Set.         *)
(***************************************************************************)
C5_ProviderErrorFailsUncached ==
  [][\A p \in Procs :
       (pc[p] # "done" /\ pc'[p] = "done" /\ ProviderFailed(p)')
         => /\ ret'[p] = Ret("err", ZeroResult)
            /\ cache' = cache
            /\ ~Called(p, "set")']_vars

\* a failed fuzzy search after a NIK lookup that found nothing
C5_Witness ==
  \E p \in Procs :
    /\ pc[p] = "done" /\ ret[p].kind = "err"
    /\ Did(p, "nik", "nil") /\ Did(p, "fuzzy", "error")
    /\ cacheKey[p] \notin DOMAIN cache

(***************************************************************************)
(* C6: a redis.Get that finds no key, fails, or returns a value that does  *)
(* not unmarshal never ends the request: CheckBlacklist goes on to the     *)
(* store and returns what the tiers compute (or the store's error).        *)
(***************************************************************************)
C6_ReadFailureIsMiss ==
  \A p \in Procs :
    (ops[p] # <<>> /\ ops[p][1] \in {Op("get", "absent"), Op("get", "error"), Op("get", "malformed")})
      => /\ Len(ops[p]) = 1 => pc[p] = (IF req[p].NIK # "" THEN "nik" ELSE "fuzzy")
         /\ pc[p] = "done" => (Called(p, "nik") \/ Called(p, "fuzzy"))
         /\ (pc[p] = "done" /\ ~ProviderFailed(p)) => ret[p] = Ret("ok", Engine(req[p]))
         /\ (pc[p] = "done" /\ ProviderFailed(p)) => ret[p].kind = "err"

\* a positive answer computed after reading a payload that is not JSON
C6_Witness ==
  \E p \in Procs :
    /\ pc[p] = "done" /\ Did(p, "get", "malformed")
    /\ ret[p].kind = "ok" /\ ret[p].result.Blacklisted

(***************************************************************************)
(* C7: whether redis.Set succeeds or fails, CheckBlacklist returns the     *)
(* result the tiers computed, without error.                               *)
(***************************************************************************)
C7_WriteFailureHarmless ==
  \A p \in Procs :
    (pc[p] = "done" /\ Called(p, "set")) => ret[p] = Ret("ok", Engine(req[p]))

\* a positive answer returned although redis.Set failed
C7_Witness ==
  \E p \in Procs :
    /\ pc[p] = "done" /\ Did(p, "set", "error")
    /\ ret[p].kind = "ok" /\ ret[p].result.Blacklisted
    /\ cacheKey[p] \notin DOMAIN cache

(***************************************************************************)
(* C8: after GetByFuzzyMatch, if some candidate equals the request on      *)
(* birth place and birth date, the result is blacklisted, fuzzy_full_match,*)
(* with the reason of the first such candidate in rank order, also when a  *)
(* candidate of higher rank matches on the date only.                      *)
(***************************************************************************)
C8_FuzzyFullFirstInRank ==
  \A p \in Procs :
    (Did(p, "fuzzy", "ok") /\ FullRanks(req[p]) # {})
      => /\ result[p] = CheckResult(TRUE, fuzzy[MinRank(FullRanks(req[p]))].Reason, "fuzzy_full_match")
         /\ pc[p] = "done" => ret[p] = Ret("ok", result[p])

\* the full match is at rank 2, below a candidate matching on the date only
C8_Witness ==
  \E p \in Procs :
    /\ pc[p] = "done" /\ Did(p, "fuzzy", "ok")
    /\ Len(fuzzy) >= 2
    /\ 1 \in DateRanks(req[p]) \ FullRanks(req[p])
    /\ 2 \in FullRanks(req[p])
    /\ ret[p].result = CheckResult(TRUE, fuzzy[2].Reason, "fuzzy_full_match")

(***************************************************************************)
(* C9: after GetByFuzzyMatch, if no candidate equals the request on both   *)
(* birth place and birth date but some candidate has the request's birth   *)
(* date, the result is blacklisted, fuzzy_date_match, with the reason of   *)
(* the first candidate in rank order that has that birth date.             *)
(***************************************************************************)
C9_FuzzyDateFirstInRank ==
  \A p \in Procs :
    (Did(p, "fuzzy", "ok") /\ FullRanks(req[p]) = {} /\ DateRanks(req[p]) # {})
      => /\ result[p] = CheckResult(TRUE, fuzzy[MinRank(DateRanks(req[p]))].Reason, "fuzzy_date_match")
         /\ pc[p] = "done" => ret[p] = Ret("ok", result[p])

\* two candidates tie on the birth date; the one at rank 1 is quoted
C9_Witness ==
  \E p \in Procs :
    /\ pc[p] = "done" /\ Did(p, "fuzzy", "ok")
    /\ FullRanks(req[p]) = {}
    /\ Cardinality(DateRanks(req[p])) >= 2
    /\ ret[p].result = CheckResult(TRUE, fuzzy[1].Reason, "fuzzy_date_match")

(***************************************************************************)
(* C10: a request without birth place that misses the cache is never       *)
(* answered fuzzy_full_match, whatever list GetByFuzzyMatch returns.       *)
(***************************************************************************)
C10_NoPlaceNeverFullMatch ==
  \A p \in Procs :
    (pc[p] = "done" /\ hreq[p].BirthPlace.nil /\ Missed(p) /\ ret[p].kind = "ok")
      => ret[p].result.MatchType # "fuzzy_full_match"

(***************************************************************************)
(* C11: every outcome CheckBlacklist returns, computed by the tiers or     *)
(* read from a cache entry that unmarshals, has match type no_match        *)
(* exactly when it is not blacklisted, and empty details when it is not    *)
(* blacklisted.                                                            *)
(***************************************************************************)
C11_OutcomeWellFormed ==
  \A p \in Procs :
    (pc[p] = "done" /\ ret[p].kind = "ok")
      => /\ (ret[p].result.MatchType = "no_match") <=> ~ret[p].result.Blacklisted
         /\ ~ret[p].result.Blacklisted => ret[p].result.Details = ""

\* the key of the requests carrying the NIK n
NikKey(n) == "blacklist:nik:" \o n

(***************************************************************************)
(* C12: starting from an empty cache, an answer with match type exact_nik  *)
(* is given only to a request that carries a NIK which GetByNIK resolves   *)
(* to a record; in particular never to a request without NIK; and every    *)
(* cache entry holding exact_nik is stored under the key of such a NIK.    *)
(***************************************************************************)
C12_ExactOnlyForResolvedNIK ==
  /\ \A p \in Procs :
       (pc[p] = "done" /\ ret[p].kind = "ok" /\ ret[p].result.MatchType = "exact_nik")
         => /\ ~hreq[p].NIK.nil
            /\ req[p].NIK # ""
            /\ ~byNIK[req[p].NIK].nil
  /\ \A k \in DOMAIN cache :
       (UnmarshalOk(cache[k].val) /\ Unmarshal(cache[k].val).MatchType = "exact_nik")
         => \E n \in DOMAIN byNIK : k = NikKey(n) /\ ~byNIK[n].nil

\* an exact answer served from the cache to a second request with the NIK
C12_Witness ==
  \E p \in Procs :
    /\ pc[p] = "done" /\ Did(p, "get", "hit")
    /\ ret[p].result.MatchType = "exact_nik"
    /\ cacheKey[p] = NikKey(req[p].NIK)

\* p and q have both derived their cache key
BothKeyed(p, q) == pc[p] = "get" /\ pc[q] = "get"

(***************************************************************************)
(* C13: the cache key of a request with a NIK depends on the NIK alone:    *)
(* two requests with the same NIK have the same key whatever their name,   *)
(* birth place and birth date, two requests with different NIKs have       *)
(* different keys, and a request without NIK never has the key of a        *)
(* request with one.                                                       *)
(***************************************************************************)
C13_NikKeyByNikAlone ==
  \A p, q \in Procs :
    (BothKeyed(p, q) /\ ~hreq[p].NIK.nil)
      => /\ hreq[q].NIK = hreq[p].NIK => cacheKey[q] = cacheKey[p]
         /\ (~hreq[q].NIK.nil /\ hreq[q].NIK # hreq[p].NIK) => cacheKey[q] # cacheKey[p]
         /\ hreq[q].NIK.nil => cacheKey[q] # cacheKey[p]

\* same NIK, every other field different, one key
C13_Witness ==
  \E p, q \in Procs :
    /\ BothKeyed(p, q) /\ ~hreq[p].NIK.nil /\ hreq[q].NIK = hreq[p].NIK
    /\ hreq[p].Name # hreq[q].Name
    /\ hreq[p].BirthPlace # hreq[q].BirthPlace
    /\ hreq[p].BirthDate # hreq[q].BirthDate
    /\ cacheKey[p] = cacheKey[q]

(***************************************************************************)
(* C14: among requests without NIK, a request that omits the birth place   *)
(* never has the cache key of the request with the same name and birth     *)
(* date and the birth place "", and a request that omits the birth date    *)
(* never has the cache key of a request with the same name and birth place *)
(* that supplies one.                                                      *)
(***************************************************************************)
C14_AbsentFieldsHaveSentinel ==
  \A p, q \in Procs :
    (BothKeyed(p, q) /\ hreq[p].NIK.nil /\ hreq[q].NIK.nil /\ hreq[p].Name = hreq[q].Name)
      => /\ (/\ hreq[p].BirthPlace.nil /\ hreq[q].BirthPlace = Ptr("")
             /\ hreq[p].BirthDate = hreq[q].BirthDate) => cacheKey[p] # cacheKey[q]
         /\ (/\ hreq[p].BirthDate.nil /\ ~hreq[q].BirthDate.nil
             /\ hreq[p].BirthPlace = hreq[q].BirthPlace) => cacheKey[p] # cacheKey[q]

(***************************************************************************)
(* C15: an invocation that misses the cache and meets no store error ends  *)
(* with a redis.Set of its result under its key, the negative no_match     *)
(* result included; when the Set succeeds the entry under the key expires  *)
(* after 24 hours and unmarshals to the result returned.                   *)
(***************************************************************************)
C15_MissWritesBack ==
  \A p \in Procs :
    (pc[p] = "done" /\ Missed(p) /\ ~ProviderFailed(p))
      => /\ ops[p][Len(ops[p])].op = "set"
         /\ Did(p, "set", "ok")
              => /\ cacheKey[p] \in DOMAIN cache
                 /\ cache[cacheKey[p]].ttl = 24
                 /\ UnmarshalOk(cache[cacheKey[p]].val)
                 /\ ret[p] = Ret("ok", Unmarshal(cache[cacheKey[p]].val))

\* the fuzzy search found nothing and no_match is in the cache
C15_Witness ==
  \E p \in Procs :
    /\ pc[p] = "done" /\ Did(p, "fuzzy", "ok") /\ Did(p, "set", "ok")
    /\ fuzzy = <<>>
    /\ cacheKey[p] \in DOMAIN cache
    /\ cache[cacheKey[p]] = [val |-> Marshal(CheckResult(FALSE, "", "no_match")), ttl |-> 24]
    /\ ret[p].result.MatchType = "no_match"

\* how many calls of kind o the invocation of p made
CountOp(p, o) == Cardinality({i \in DOMAIN ops[p] : ops[p][i].op = o})

(***************************************************************************)
(* C16: one invocation of CheckBlacklist makes at most one redis.Get, one  *)
(* GetByNIK, one GetByFuzzyMatch and one redis.Set; the Get comes before   *)
(* every store call and the Set after them.                                *)
(***************************************************************************)
C16_AtMostOneOfEachCall ==
  \A p \in Procs :
    /\ \A o \in {"get", "nik", "fuzzy", "set"} : CountOp(p, o) <= 1
    /\ \A i, j \in DOMAIN ops[p] :
         /\ (ops[p][i].op = "get" /\ ops[p][j].op \in {"nik", "fuzzy", "set"}) => i < j
         /\ (ops[p][i].op = "nik" /\ ops[p][j].op = "fuzzy") => i < j
         /\ (ops[p][i].op \in {"nik", "fuzzy"} /\ ops[p][j].op = "set") => i < j
    /\ pc[p] \in {"nik", "fuzzy", "set", "done"} /\ ret[p].kind # "badreq" => CountOp(p, "get") = 1

\* an invocation that made all four calls
C16_Witness ==
  \E p \in Procs :
    /\ pc[p] = "done"
    /\ ops[p] = <<Op("get", "absent"), Op("nik", "nil"), Op("fuzzy", "ok"), Op("set", "ok")>>

\* p and q are different invocations with the same cache key
SameKey(p, q) == p # q /\ pc[p] # "idle" /\ pc[q] # "idle" /\ cacheKey[p] = cacheKey[q]

(***************************************************************************)
(* C17: nothing deduplicates concurrent invocations for one key.  Whatever *)
(* the other invocation is doing, an invocation whose key is absent can    *)
(* take its miss, one that missed can call the store, and one that has a   *)
(* result can write it; an invocation that missed and returned a result    *)
(* got it from its own store calls.                                        *)
(***************************************************************************)
C17_NoSingleFlight ==
  \A p \in Procs :
    /\ (pc[p] = "get" /\ cacheKey[p] \notin DOMAIN cache) => ENABLED CacheGetAbsent(p)
    /\ pc[p] = "nik" => ENABLED GetByNIK(p)
    /\ pc[p] = "fuzzy" => ENABLED GetByFuzzyMatch(p)
    /\ pc[p] = "set" => ENABLED CacheSet(p)
    /\ (pc[p] = "done" /\ Missed(p) /\ ret[p].kind = "ok")
         => (Did(p, "nik", "found") \/ Did(p, "fuzzy", "ok"))

\* the stampede: both invocations of one key found it absent, both asked
\* the store and both wrote the cache
C17_Witness ==
  \E p, q \in Procs :
    /\ SameKey(p, q)
    /\ pc[p] = "done" /\ pc[q] = "done"
    /\ \A r \in {p, q} :
         /\ ops[r][1] = Op("get", "absent")
         /\ Did(r, "fuzzy", "ok")
         /\ Did(r, "set", "ok")

\* the context of the invocation of p was cancelled / where in its call log
WasCancelled(p) == Did(p, "ctx", "cancel")
CancelAt(p) == CHOOSE i \in DOMAIN ops[p] : ops[p][i] = Op("ctx", "cancel")

\* the store calls of the invocation had produced its result before call i
ResolvedBefore(p, i) ==
  \E j \in 1..(i - 1) : ops[p][j] \in {Op("nik", "found"), Op("fuzzy", "ok")}

(***************************************************************************)
(* C18 as stated: an invocation whose context is cancelled at any point,   *)
(* before the cache write included, returns an error.                      *)
(***************************************************************************)
C18_CancelAlwaysFails ==
  \A p \in Procs :
    (pc[p] = "done" /\ WasCancelled(p)) => ret[p].kind = "err"

(***************************************************************************)
(* C18 amended: an invocation whose context is cancelled before its store  *)
(* calls have produced the result returns an error; cancelled after them,  *)
(* its redis.Set fails and it returns the result all the same.             *)
(***************************************************************************)
C18_CancelBeforeResultFails ==
  \A p \in Procs :
    (pc[p] = "done" /\ WasCancelled(p))
      => IF ResolvedBefore(p, CancelAt(p))
           THEN ret[p] = Ret("ok", Engine(req[p])) /\ Did(p, "set", "error")
           ELSE ret[p].kind = "err"

\* cancelled between GetByNIK and GetByFuzzyMatch
C18_Witness ==
  \E p \in Procs :
    /\ pc[p] = "done"
    /\ ret[p].kind = "err"
    /\ ops[p] = <<Op("get", "absent"), Op("nik", "nil"), Op("ctx", "cancel"), Op("fuzzy", "error")>>

\* this step is the call o with outcome out of the invocation of p
StepOf(p, o, out) == ops'[p] = Append(ops[p], Op(o, out))

\* no other invocation has the cache key of p
OwnKey(p) == \A q \in Procs \ {p} : cacheKey[q] # cacheKey[p]

(***************************************************************************)
(* C19: a step of CheckBlacklist changes the cache only by a successful    *)
(* redis.Set, which writes the entry at the invocation's own key and       *)
(* leaves every other entry as it was; a step that hits the cache changes  *)
(* no entry.  So an invocation whose key no concurrent invocation shares   *)
(* returns the result of the tiers for its request and writes that result, *)
(* however the calls of the two interleave.                                *)
(***************************************************************************)
C19_OwnEntryOnly ==
  [][\A p \in Procs :
       /\ StepOf(p, "get", "hit") => cache' = cache
       /\ (ops'[p] # ops[p] /\ ~StepOf(p, "set", "ok")) => cache' = cache
       /\ StepOf(p, "set", "ok")
            => /\ DOMAIN cache' = DOMAIN cache \cup {cacheKey[p]}
               /\ \A k \in DOMAIN cache \ {cacheKey[p]} : cache'[k] = cache[k]
               /\ OwnKey(p) => cache'[cacheKey[p]].val = Marshal(Engine(req[p]))
       /\ (pc'[p] = "done" /\ ret'[p].kind = "ok" /\ OwnKey(p))
            => ret'[p] = Ret("ok", Engine(req[p]))]_vars

\* two invocations with different keys ran interleaved and each left its
\* entry
C19_Witness ==
  \E p, q \in Procs :
    /\ pc[p] = "done" /\ pc[q] = "done"
    /\ cacheKey[p] # cacheKey[q]
    /\ Did(p, "set", "ok") /\ Did(q, "set", "ok")
    /\ ops[p][1] = Op("get", "absent") /\ ops[q][1] = Op("get", "absent")
    /\ DOMAIN cache = {cacheKey[p], cacheKey[q]}
    /\ cache[cacheKey[p]].val # cache[cacheKey[q]].val

(***************************************************************************)
(* C20 as stated: with the Redis written by CheckBlacklist alone, starting *)
(* empty, every result returned for a request with a NIK is the result the *)
(* tiers give for that request on the store's data.                        *)
(***************************************************************************)
C20_NikCacheTransparent ==
  \A p \in Procs :
    (pc[p] = "done" /\ ret[p].kind = "ok" /\ req[p].NIK # "")
      => ret[p].result = Engine(req[p])

\* the fields the key of a request without NIK is built from
NameKeyFields(r) == <<r.Name, r.BirthPlace, FormatDate(r.BirthDate)>>

(***************************************************************************)
(* C21: two requests without NIK whose name, birth place or calendar birth *)
(* date differ never have the same cache key, also when a name or a birth  *)
(* place contains ':'.                                                     *)
(***************************************************************************)
C21_NameKeyInjective ==
  \A p, q \in Procs :
    (/\ BothKeyed(p, q) /\ req[p].NIK = "" /\ req[q].NIK = ""
     /\ NameKeyFields(req[p]) # NameKeyFields(req[q]))
      => cacheKey[p] # cacheKey[q]

(***************************************************************************)
(* C22: with the Redis written by CheckBlacklist alone, starting empty,    *)
(* every result returned for a request without NIK is the classification   *)
(* of the fuzzy tiers for that request's own birth date: a result cached   *)
(* for one instant is not served to a request for another instant of the   *)
(* same calendar day.                                                      *)
(***************************************************************************)
C22_KeyAgreesWithTiersOnDate ==
  \A p \in Procs :
    (pc[p] = "done" /\ ret[p].kind = "ok" /\ req[p].NIK = "")
      => ret[p].result = FuzzyResult(fuzzy, req[p])

====
